---- MODULE Spec2Model ----
(***************************************************************************)
(* Telemetry snippet lifecycle of refact-lsp.                               *)
(*                                                                          *)
(* The store (tele_snippets, tele_snippet_next_id) lives behind one         *)
(* std::sync::RwLock; snippet_register, snippet_accepted and                *)
(* sources_changed take its write guard for their whole body.  Texts are    *)
(* sequences of one-character strings, so that line splitting, prefix       *)
(* tests and character counts are computed and not assumed.                 *)
(*                                                                          *)
(* Left out of the store model: SnippetTracker.model and .created_ts        *)
(* (written once by snippet_register, read by none of the functions here)   *)
(* and the statistics the two aggregation collaborators keep: of a snippet  *)
(* handed to them the model records the id, the corrected text, the score   *)
(* and finished_ts.                                                         *)
(***************************************************************************)
EXTENDS Integers, Sequences, FiniteSets, TLC

(***************************************************************************)
(* Bounds                                                                   *)
(***************************************************************************)
\* number of records the store may hold
MaxSnippets == 2
\* number of concurrent tasks calling into the store
NumTasks == 2
\* wall-clock readings are drawn from 1..MaxTime
MaxTime == 2
\* lines in a text handed to a function of utils.rs
MaxLines == 2
\* changes in a diff handed to the classification loop
MaxChanges == 3
\* characters in a text handed to unchanged_percentage
MaxChars == 3

\* first id issued by a fresh store
FirstId == 101

(***************************************************************************)
(* Text primitives                                                          *)
(***************************************************************************)
NL == "\n"
CR == "\r"

\* characters matched by \s in regex ^\s*$
WhitespaceChars == {" ", "\t", NL, CR, "\f"}

\* regex_space_only.is_match(s)
regex_space_only(s) == \A i \in 1..Len(s) : s[i] \in WhitespaceChars

\* s.starts_with(p)
starts_with(s, p) == Len(p) <= Len(s) /\ SubSeq(s, 1, Len(p)) = p

\* s.ends_with(p)
ends_with(s, p) == Len(p) <= Len(s) /\ SubSeq(s, Len(s) - Len(p) + 1, Len(s)) = p

\* s.replace("\r", "")
RECURSIVE replace_cr(_)
replace_cr(s) ==
    IF s = <<>> THEN <<>>
    ELSE IF Head(s) = CR THEN replace_cr(Tail(s))
    ELSE <<Head(s)>> \o replace_cr(Tail(s))

\* s.contains("\n")
contains_nl(s) == \E i \in 1..Len(s) : s[i] = NL

\* length of the first line of a non-empty text, terminator included:
\* a line ends after "\n", after "\r\n" and after a lone "\r"
FirstLineLen(s) ==
    LET ends == {i \in 1..Len(s) :
                    \/ s[i] = NL
                    \/ s[i] = CR /\ (i = Len(s) \/ s[i + 1] # NL)}
    IN IF ends = {} THEN Len(s)
       ELSE CHOOSE i \in ends : \A j \in ends : i <= j

\* the lines of a text, each with its terminator (TextDiff::from_lines)
RECURSIVE tokenize_lines(_)
tokenize_lines(s) ==
    IF s = <<>> THEN <<>>
    ELSE LET n == FirstLineLen(s)
         IN <<SubSeq(s, 1, n)>> \o tokenize_lines(SubSeq(s, n + 1, Len(s)))

\* length of a longest common subsequence of two token sequences
RECURSIVE LCSLen(_, _)
LCSLen(a, b) ==
    IF a = <<>> \/ b = <<>> THEN 0
    ELSE IF Head(a) = Head(b) THEN 1 + LCSLen(Tail(a), Tail(b))
    ELSE LET x == LCSLen(Tail(a), b)
             y == LCSLen(a, Tail(b))
         IN IF x >= y THEN x ELSE y

\* diff.iter_all_changes(): a shortest edit script of a into b as a sequence of
\* changes; between two Equal runs the Delete changes come before the Inserts
RECURSIVE iter_all_changes(_, _)
iter_all_changes(a, b) ==
    IF a = <<>> /\ b = <<>> THEN <<>>
    ELSE IF a = <<>>
        THEN <<[tag |-> "Insert", value |-> Head(b)]>> \o iter_all_changes(a, Tail(b))
    ELSE IF b = <<>>
        THEN <<[tag |-> "Delete", value |-> Head(a)]>> \o iter_all_changes(Tail(a), b)
    ELSE IF Head(a) = Head(b)
        THEN <<[tag |-> "Equal", value |-> Head(a)]>> \o iter_all_changes(Tail(a), Tail(b))
    ELSE IF LCSLen(Tail(a), b) >= LCSLen(a, Tail(b))
        THEN <<[tag |-> "Delete", value |-> Head(a)]>> \o iter_all_changes(Tail(a), b)
    ELSE <<[tag |-> "Insert", value |-> Head(b)]>> \o iter_all_changes(a, Tail(b))

(***************************************************************************)
(* f64 results of integer divisions, kept exact: a reduced fraction, with   *)
(* den = 0 standing for NaN (0.0 / 0.0)                                     *)
(***************************************************************************)
RECURSIVE Gcd(_, _)
Gcd(m, n) == IF n = 0 THEN m ELSE Gcd(n, m % n)

\* (n as f64) / (d as f64) for n >= 0, d >= 0, n <= d
F64Div(n, d) ==
    IF d = 0 THEN [num |-> 0, den |-> 0]
    ELSE LET g == Gcd(d, n) IN [num |-> n \div g, den |-> d \div g]

\* the literal -1. written by snippet_register
NotEvaluated == [num |-> -1, den |-> 1]

IsNaN(r) == r.den = 0

\* r >= 0. (false for NaN)
GeZero(r) == r.den # 0 /\ r.num >= 0

Max(x, y) == IF x >= y THEN x ELSE y

unchanged_percentage_mut(text_a, text_b) ==
    F64Div(LCSLen(text_a, text_b), Len(text_a) + Len(text_b))
\* utils::unchanged_percentage
unchanged_percentage(text_a, text_b) ==
    F64Div(LCSLen(text_a, text_b), Max(Len(text_a), Len(text_b)))

(***************************************************************************)
(* utils::if_head_tail_equal_return_added_text                              *)
(***************************************************************************)
\* the local variables before the loop
ClassifyInit ==
    [allow_add_spaces_once |-> TRUE,
     adding_one_block |-> FALSE,
     added_one_block |-> FALSE,
     added_text |-> <<>>,
     kill_slash_n |-> FALSE,
     deletion_once |-> <<>>,
     returned |-> FALSE]

\* kill_slash_n is never set
ClassifyDelete_mut_kill(st, val) ==
    LET st1 == IF st.adding_one_block THEN [st EXCEPT !.added_one_block = TRUE] ELSE st
        whitespace_only == regex_space_only(val)
        stripped == IF ends_with(val, <<NL>>) THEN SubSeq(val, 1, Len(val) - 1) ELSE val
    IN IF ~whitespace_only /\ st1.deletion_once # <<>>
       THEN [st1 EXCEPT !.returned = TRUE]
       ELSE IF ~whitespace_only
            THEN [st1 EXCEPT !.deletion_once = stripped]
            ELSE st1
\* a second deletion that is not whitespace-only is let through
ClassifyDelete_mut_twice(st, val) ==
    LET st1 == IF st.adding_one_block THEN [st EXCEPT !.added_one_block = TRUE] ELSE st
        whitespace_only == regex_space_only(val)
        stripped == IF ends_with(val, <<NL>>) THEN SubSeq(val, 1, Len(val) - 1) ELSE val
        st2 == IF ~whitespace_only /\ st1.deletion_once = <<>>
               THEN [st1 EXCEPT !.deletion_once = stripped]
               ELSE st1
    IN IF ends_with(val, <<NL>>)
       THEN [st2 EXCEPT !.kill_slash_n = TRUE]
       ELSE st2
\* ChangeTag::Delete arm
ClassifyDelete(st, val) ==
    LET st1 == IF st.adding_one_block THEN [st EXCEPT !.added_one_block = TRUE] ELSE st
        whitespace_only == regex_space_only(val)
        stripped == IF ends_with(val, <<NL>>) THEN SubSeq(val, 1, Len(val) - 1) ELSE val
    IN IF ~whitespace_only /\ st1.deletion_once # <<>>
       THEN [st1 EXCEPT !.returned = TRUE]
       ELSE LET st2 == IF ~whitespace_only
                       THEN [st1 EXCEPT !.deletion_once = stripped]
                       ELSE st1
            IN IF ends_with(val, <<NL>>)
               THEN [st2 EXCEPT !.kill_slash_n = TRUE]
               ELSE st2

\* allow_add_spaces_once is never cleared
ClassifyInsert_mut_spaces(st, val, is_multiline) ==
    LET whitespace_only == regex_space_only(val)
    IN IF st.added_one_block
       THEN [st EXCEPT !.returned = TRUE]
       ELSE IF st.deletion_once # <<>> /\ ~starts_with(val, st.deletion_once)
       THEN [st EXCEPT !.returned = TRUE]
       ELSE IF st.adding_one_block /\ ~is_multiline /\ ~whitespace_only
       THEN [st EXCEPT !.returned = TRUE]
       ELSE [st EXCEPT
               !.added_text = @ \o SubSeq(val, Len(st.deletion_once) + 1, Len(val)),
               !.adding_one_block = TRUE]
\* the inserted line is not compared with deletion_once
ClassifyInsert_mut_prefix(st, val, is_multiline) ==
    LET whitespace_only == regex_space_only(val)
    IN IF ~st.allow_add_spaces_once
       THEN [st EXCEPT !.returned = TRUE]
       ELSE LET st1 == IF whitespace_only
                       THEN [st EXCEPT !.allow_add_spaces_once = FALSE]
                       ELSE st
            IN IF st1.added_one_block
               THEN [st1 EXCEPT !.returned = TRUE]
               ELSE IF st1.adding_one_block /\ ~is_multiline /\ ~whitespace_only
               THEN [st1 EXCEPT !.returned = TRUE]
               ELSE [st1 EXCEPT
                       !.added_text = @ \o SubSeq(val, Len(st1.deletion_once) + 1, Len(val)),
                       !.adding_one_block = TRUE]
\* a grey text of one line is treated like one of several lines
ClassifyInsert_mut_multiline(st, val, is_multiline) ==
    LET whitespace_only == regex_space_only(val)
    IN IF ~st.allow_add_spaces_once
       THEN [st EXCEPT !.returned = TRUE]
       ELSE LET st1 == IF whitespace_only
                       THEN [st EXCEPT !.allow_add_spaces_once = FALSE]
                       ELSE st
            IN IF st1.added_one_block
               THEN [st1 EXCEPT !.returned = TRUE]
               ELSE IF st1.deletion_once # <<>> /\ ~starts_with(val, st1.deletion_once)
               THEN [st1 EXCEPT !.returned = TRUE]
               ELSE [st1 EXCEPT
                       !.added_text = @ \o SubSeq(val, Len(st1.deletion_once) + 1, Len(val)),
                       !.adding_one_block = TRUE]
\* ChangeTag::Insert arm
ClassifyInsert(st, val, is_multiline) ==
    LET whitespace_only == regex_space_only(val)
    IN IF ~st.allow_add_spaces_once
       THEN [st EXCEPT !.returned = TRUE]
       ELSE LET st1 == IF whitespace_only
                       THEN [st EXCEPT !.allow_add_spaces_once = FALSE]
                       ELSE st
            IN IF st1.added_one_block
               THEN [st1 EXCEPT !.returned = TRUE]
               ELSE IF st1.deletion_once # <<>> /\ ~starts_with(val, st1.deletion_once)
               THEN [st1 EXCEPT !.returned = TRUE]
               ELSE IF st1.adding_one_block /\ ~is_multiline /\ ~whitespace_only
               THEN [st1 EXCEPT !.returned = TRUE]
               ELSE [st1 EXCEPT
                       !.added_text = @ \o SubSeq(val, Len(st1.deletion_once) + 1, Len(val)),
                       !.adding_one_block = TRUE]

\* an equal line does not close the block of insertions
ClassifyEqual_mut(st) == st
\* ChangeTag::Equal arm
ClassifyEqual(st) ==
    IF st.adding_one_block THEN [st EXCEPT !.added_one_block = TRUE] ELSE st

\* the for loop over diff.iter_all_changes(), stopping at the first return
RECURSIVE ClassifyLoop(_, _, _)
ClassifyLoop(st, changes, is_multiline) ==
    IF st.returned \/ changes = <<>> THEN st
    ELSE LET c == Head(changes)
             st1 == CASE c.tag = "Delete" -> ClassifyDelete(st, c.value)
                      [] c.tag = "Insert" -> ClassifyInsert(st, c.value, is_multiline)
                      [] OTHER -> ClassifyEqual(st)
         IN ClassifyLoop(st1, Tail(changes), is_multiline)

\* everything after the diff is taken: the loop over the changes and the
\* lines after it
ClassifyChanges(changes, orig_grey_text) ==
    LET st == ClassifyLoop(ClassifyInit, changes, contains_nl(orig_grey_text))
        killed == IF st.kill_slash_n /\ ends_with(st.added_text, <<NL>>)
                  THEN SubSeq(st.added_text, 1, Len(st.added_text) - 1)
                  ELSE st.added_text
    IN IF st.returned
       THEN [valid |-> FALSE, text |-> <<>>]
       ELSE [valid |-> TRUE, text |-> replace_cr(killed)]

if_head_tail_equal_return_added_text(text_a, text_b, orig_grey_text) ==
    ClassifyChanges(iter_all_changes(tokenize_lines(text_a), tokenize_lines(text_b)),
                    orig_grey_text)

(***************************************************************************)
(* utils::get_add_del_from_texts                                            *)
(***************************************************************************)
\* the concatenation of the values of the changes that carry the tag
RECURSIVE ConcatTagged(_, _)
ConcatTagged(changes, tag) ==
    IF changes = <<>> THEN <<>>
    ELSE (IF Head(changes).tag = tag THEN Head(changes).value ELSE <<>>)
         \o ConcatTagged(Tail(changes), tag)

\* returns (added, removed); removed is assigned from added on line 38
get_add_del_from_texts(text_a, text_b) ==
    LET changes == iter_all_changes(tokenize_lines(text_a), tokenize_lines(text_b))
        added0 == ConcatTagged(changes, "Insert")
        removed0 == ConcatTagged(changes, "Delete")
        added == replace_cr(added0)
        removed == replace_cr(added)
    IN [added |-> added, removed |-> removed]

(***************************************************************************)
(* utils::unchanged_percentage_approx                                       *)
(***************************************************************************)
\* str::lines(): the lines of a text without their "\n" or "\r\n"; a last
\* line needs no terminator, and no empty line follows a final terminator
RECURSIVE lines(_)
lines(s) ==
    IF s = <<>> THEN <<>>
    ELSE LET nls == {i \in 1..Len(s) : s[i] = NL}
         IN IF nls = {} THEN <<s>>
            ELSE LET n == CHOOSE i \in nls : \A j \in nls : i <= j
                     raw == SubSeq(s, 1, n - 1)
                     line == IF raw # <<>> /\ raw[Len(raw)] = CR
                             THEN SubSeq(raw, 1, Len(raw) - 1)
                             ELSE raw
                 IN <<line>> \o lines(SubSeq(s, n + 1, Len(s)))

\* utils::common_characters_in_strings: the Equal changes of the character
\* diff, one per character of a longest common subsequence
common_characters_in_strings(a, b) == LCSLen(a, b)

\* BiggestCommon::new()
BiggestCommonNew == [val |-> 0, idx |-> 0, string |-> <<>>, valid |-> FALSE]

\* a candidate as good as the best so far replaces it
BiggestCommonCompare_mut(self, new_val, new_idx, new_string) ==
    IF new_val >= self.val
    THEN [val |-> new_val, idx |-> new_idx, string |-> new_string, valid |-> TRUE]
    ELSE self
\* BiggestCommon::compare
BiggestCommonCompare(self, new_val, new_idx, new_string) ==
    IF new_val > self.val
    THEN [val |-> new_val, idx |-> new_idx, string |-> new_string, valid |-> TRUE]
    ELSE self

\* the inner loop over texts_ab_added.lines().enumerate(), from index a_idx
\* (counted from 0) on
RECURSIVE ApproxInnerLoop(_, _, _, _, _)
ApproxInnerLoop(biggest_common, a_lines, a_idx, line, a_idx_taken) ==
    IF a_idx >= Len(a_lines) THEN biggest_common
    ELSE IF \E k \in 1..Len(a_idx_taken) : a_idx_taken[k] = a_idx
    THEN ApproxInnerLoop(biggest_common, a_lines, a_idx + 1, line, a_idx_taken)
    ELSE ApproxInnerLoop(
            BiggestCommonCompare(biggest_common,
                                 common_characters_in_strings(a_lines[a_idx + 1], line),
                                 a_idx, a_lines[a_idx + 1]),
            a_lines, a_idx + 1, line, a_idx_taken)

\* the outer loop over grey_text_a.lines(); st holds common and a_idx_taken
RECURSIVE ApproxOuterLoop(_, _, _)
ApproxOuterLoop(st, grey_lines, a_lines) ==
    IF grey_lines = <<>> THEN st
    ELSE LET biggest_common ==
                 ApproxInnerLoop(BiggestCommonNew, a_lines, 0, Head(grey_lines),
                                 st.a_idx_taken)
             st1 == IF ~biggest_common.valid THEN st
                    ELSE [common |-> st.common + biggest_common.val,
                          a_idx_taken |-> Append(st.a_idx_taken, biggest_common.idx)]
         IN ApproxOuterLoop(st1, Tail(grey_lines), a_lines)

\* common and a_idx_taken when the function returns
ApproxLocals(text_a, text_b, grey_text_a) ==
    LET texts_ab_added == get_add_del_from_texts(text_a, text_b).added
    IN IF texts_ab_added = <<>> THEN [common |-> 0, a_idx_taken |-> <<>>]
       ELSE ApproxOuterLoop([common |-> 0, a_idx_taken |-> <<>>],
                            lines(grey_text_a), lines(texts_ab_added))

\* s.replace("\n", "").replace("\r", "")
replace_nl_cr(s) == SelectSeq(s, LAMBDA c : c # NL /\ c # CR)

unchanged_percentage_approx(text_a, text_b, grey_text_a) ==
    IF get_add_del_from_texts(text_a, text_b).added = <<>>
    THEN [num |-> 0, den |-> 1]
    ELSE F64Div(ApproxLocals(text_a, text_b, grey_text_a).common,
                Len(replace_nl_cr(grey_text_a)))

(***************************************************************************)
(* Inputs                                                                   *)
(***************************************************************************)
FileA == <<"a">>
FileB == <<"b">>

\* content of the file when the completion was proposed
OrigText == <<"a", NL>>

\* CompletionServed events: CodeCompletionPost.inputs (cursor.file, sources)
\* and completion0_text.  The third one has no source for its own cursor file.
Completions ==
    {[file |-> FileA, sources |-> [f \in {FileA} |-> OrigText], text |-> <<"b", NL>>],
     [file |-> FileA, sources |-> [f \in {FileA} |-> OrigText], text |-> <<>>],
     [file |-> FileA, sources |-> [f \in {FileB} |-> OrigText], text |-> <<"b", NL>>]}

\* completion0_finish_reason
FinishReasons == {"", "stop"}

\* uri of a changed file
Uris == {<<"/", "a">>, <<"/", "b">>}

\* text of a changed file: unchanged, one line appended, the line replaced
NewTexts ==
    {<<"a", NL>>,
     <<"a", NL, "b", NL>>,
     <<"c", NL>>}

Tasks == 1..NumTasks
NoTask == 0
\* chrono::Local::now().timestamp(): a wall clock, not monotonic
Timestamps == 1..MaxTime

\* ids a client may send to /v1/completion-accepted: every id the store can
\* issue and one it never issues
AcceptIds == FirstId..(FirstId + MaxSnippets)

NoneId == 0
NoLocal == [kind |-> "none"]
NoHistory == [on |-> FALSE]
NoUpdate == [written |-> FALSE]
NoCall == [fn |-> "none"]

(***************************************************************************)
(* State                                                                    *)
(***************************************************************************)
VARIABLES
    tele_snippets,              \* Storage.tele_snippets: Vec<SnippetTracker>
    tele_snippet_next_id,       \* Storage.tele_snippet_next_id
    tele_robot_human,           \* snippets handed to basic_robot_human
    snippet_data_accumulators,  \* snippets handed to basic_comp_counters
    lock,                       \* task holding the write guard of the store
    pc,                         \* position of each task
    local,                      \* arguments, locals and return value of each task
    history,                    \* observer, NoHistory unless SpecHistory runs:
                                \*   scored: ids that got an update with a score >= 0
                                \*   abandoned: ids whose accepted_ts sources_changed reset
                                \*   updated: per id, what the last update wrote
    call                        \* one call of a function of utils.rs, NoCall unless
                                \* SpecUtils runs: its arguments and its return value

vars == <<tele_snippets, tele_snippet_next_id, tele_robot_human,
          snippet_data_accumulators, lock, pc, local, history, call>>

store == <<tele_snippets, tele_snippet_next_id>>
outputs == <<tele_robot_human, snippet_data_accumulators>>

InitProgram ==
    /\ tele_snippets = <<>>
    /\ tele_snippet_next_id = FirstId
    /\ tele_robot_human = <<>>
    /\ snippet_data_accumulators = <<>>
    /\ lock = NoTask
    /\ pc = [t \in Tasks |-> "idle"]
    /\ local = [t \in Tasks |-> NoLocal]

Init == InitProgram /\ history = NoHistory /\ call = NoCall

InitHistory ==
    /\ InitProgram
    /\ history = [on |-> TRUE, scored |-> {}, abandoned |-> {},
                  updated |-> [id \in AcceptIds |-> NoUpdate]]
    /\ call = NoCall

LockFree_mut(t) == TRUE
\* storage_arc.write() succeeds only while no other guard is alive
LockFree(t) == lock = NoTask

(***************************************************************************)
(* snippet_register_from_data4cache / snippet_register                      *)
(***************************************************************************)
NewSnippet_mut(id, completion) ==
    [snippet_telemetry_id |-> id,
     file |-> completion.file,
     sources |-> completion.sources,
     grey_text |-> completion.text,
     corrected_by_user |-> completion.text,
     remaining_percentage |-> F64Div(0, 1),
     accepted_ts |-> 0,
     finished_ts |-> 0]
\* the SnippetTracker built by snippet_register
NewSnippet(id, completion) ==
    [snippet_telemetry_id |-> id,
     file |-> completion.file,
     sources |-> completion.sources,
     grey_text |-> completion.text,
     corrected_by_user |-> <<>>,
     remaining_percentage |-> NotEvaluated,
     accepted_ts |-> 0,
     finished_ts |-> 0]

\* completion0_finish_reason.is_empty(): return without touching the store,
\* completion0_snippet_telemetry_id stays None
RegisterEmpty(t) ==
    /\ pc[t] = "idle"
    /\ \E reason \in FinishReasons :
        /\ reason = ""
        /\ pc' = [pc EXCEPT ![t] = "reg_done"]
        /\ local' = [local EXCEPT ![t] =
                        [kind |-> "register", finish_reason |-> reason, ret |-> NoneId]]
    /\ UNCHANGED <<store, outputs, lock, history, call>>

\* finish reason not empty: snippet_register takes the write guard and reads
\* tele_snippet_next_id
RegisterLock(t) ==
    /\ pc[t] = "idle"
    /\ Len(tele_snippets) < MaxSnippets
    /\ LockFree(t)
    /\ \E reason \in FinishReasons :
        /\ reason # ""
        /\ lock' = t
        /\ pc' = [pc EXCEPT ![t] = "reg_locked"]
        /\ local' = [local EXCEPT ![t] =
                        [kind |-> "register", finish_reason |-> reason,
                         snippet_telemetry_id |-> tele_snippet_next_id]]
    /\ UNCHANGED <<store, outputs, history, call>>

\* build the tracker, bump the counter, push, return the id
RegisterPush(t) ==
    /\ pc[t] = "reg_locked"
    /\ \E completion \in Completions :
        tele_snippets' = Append(tele_snippets,
                                NewSnippet(local[t].snippet_telemetry_id, completion))
    /\ tele_snippet_next_id' = tele_snippet_next_id + 1
    /\ pc' = [pc EXCEPT ![t] = "reg_done"]
    /\ local' = [local EXCEPT ![t] =
                    [kind |-> "register", finish_reason |-> local[t].finish_reason,
                     ret |-> local[t].snippet_telemetry_id]]
    /\ UNCHANGED <<outputs, lock, history, call>>

(***************************************************************************)
(* snippet_accepted                                                         *)
(***************************************************************************)
FindSnippet_mut(id) ==
    LET hits == {i \in 1..Len(tele_snippets) : tele_snippets[i].snippet_telemetry_id <= id}
    IN IF hits = {} THEN 0 ELSE CHOOSE i \in hits : \A j \in hits : i <= j
\* tele_snippets.iter_mut().find(|s| s.snippet_telemetry_id == id): index of
\* the first match, 0 for None
FindSnippet(id) ==
    LET hits == {i \in 1..Len(tele_snippets) : tele_snippets[i].snippet_telemetry_id = id}
    IN IF hits = {} THEN 0 ELSE CHOOSE i \in hits : \A j \in hits : i <= j

\* tele_storage_arc.write()
AcceptLock(t) ==
    /\ pc[t] = "idle"
    /\ LockFree(t)
    /\ lock' = t
    /\ pc' = [pc EXCEPT ![t] = "acc_locked"]
    /\ local' = [local EXCEPT ![t] = [kind |-> "accepted"]]
    /\ UNCHANGED <<store, outputs, history, call>>

\* find the record; if found stamp accepted_ts and return true, else false
AcceptBody(t) ==
    /\ pc[t] = "acc_locked"
    /\ \E id \in AcceptIds :
        LET i == FindSnippet(id)
        IN IF i # 0
           THEN \E now \in Timestamps :
                  /\ tele_snippets' = [tele_snippets EXCEPT ![i].accepted_ts = now]
                  /\ local' = [local EXCEPT ![t] =
                        [kind |-> "accepted", snippet_telemetry_id |-> id, ret |-> TRUE]]
           ELSE /\ UNCHANGED tele_snippets
                /\ local' = [local EXCEPT ![t] =
                        [kind |-> "accepted", snippet_telemetry_id |-> id, ret |-> FALSE]]
    /\ pc' = [pc EXCEPT ![t] = "acc_done"]
    /\ UNCHANGED <<tele_snippet_next_id, outputs, lock, history, call>>

(***************************************************************************)
(* sources_changed                                                          *)
(***************************************************************************)
\* the uri is not compared with the file of the record
Eligible_mut(snip, uri) ==
    /\ ~(snip.accepted_ts = 0)
    /\ ~(snip.finished_ts > 0)
    /\ snip.file \in DOMAIN snip.sources
\* the three `continue` tests at the head of the loop body, negated
Eligible(snip, uri) ==
    /\ ~(snip.accepted_ts = 0 \/ ~ends_with(uri, snip.file))
    /\ ~(snip.finished_ts > 0)
    /\ snip.file \in DOMAIN snip.sources

\* the call of if_head_tail_equal_return_added_text in the loop body
Classify(snip, text) ==
    if_head_tail_equal_return_added_text(snip.sources[snip.file], text, snip.grey_text)

\* a rejected edit finishes the record whatever its score is
Outcome_mut(snip, uri, text) ==
    IF ~Eligible(snip, uri) THEN "skip"
    ELSE IF Classify(snip, text).valid THEN "update"
    ELSE "finish"
\* what one iteration of the loop does to a record: "skip", "update",
\* "finish" or "abandon"
Outcome(snip, uri, text) ==
    IF ~Eligible(snip, uri) THEN "skip"
    ELSE IF Classify(snip, text).valid THEN "update"
    ELSE IF GeZero(snip.remaining_percentage) THEN "finish"
    ELSE "abandon"

\* finishing also clears accepted_ts
LoopBody_mut_finish(snip, uri, text, now) ==
    LET o == Outcome(snip, uri, text)
    IN CASE o = "update" ->
              LET grey_corrected == Classify(snip, text).text
              IN [snip EXCEPT !.corrected_by_user = replace_cr(grey_corrected),
                              !.remaining_percentage =
                                   unchanged_percentage(grey_corrected, snip.grey_text)]
         [] o = "finish" -> [snip EXCEPT !.finished_ts = now, !.accepted_ts = 0]
         [] o = "abandon" -> [snip EXCEPT !.accepted_ts = 0]
         [] OTHER -> snip
\* abandoning does not clear accepted_ts
LoopBody_mut_abandon(snip, uri, text, now) ==
    LET o == Outcome(snip, uri, text)
    IN CASE o = "update" ->
              LET grey_corrected == Classify(snip, text).text
              IN [snip EXCEPT !.corrected_by_user = replace_cr(grey_corrected),
                              !.remaining_percentage =
                                   unchanged_percentage(grey_corrected, snip.grey_text)]
         [] o = "finish" -> [snip EXCEPT !.finished_ts = now]
         [] OTHER -> snip
\* an update stores the score of the suggested text against itself
LoopBody_mut_update(snip, uri, text, now) ==
    LET o == Outcome(snip, uri, text)
    IN CASE o = "update" ->
              LET grey_corrected == Classify(snip, text).text
              IN [snip EXCEPT !.corrected_by_user = replace_cr(grey_corrected),
                              !.remaining_percentage =
                                   unchanged_percentage(snip.grey_text, snip.grey_text)]
         [] o = "finish" -> [snip EXCEPT !.finished_ts = now]
         [] o = "abandon" -> [snip EXCEPT !.accepted_ts = 0]
         [] OTHER -> snip
\* an update scores the added text against what the update before it wrote
LoopBody_mut_previous(snip, uri, text, now) ==
    LET o == Outcome(snip, uri, text)
    IN CASE o = "update" ->
              LET grey_corrected == Classify(snip, text).text
              IN [snip EXCEPT !.corrected_by_user = replace_cr(grey_corrected),
                              !.remaining_percentage =
                                   unchanged_percentage(grey_corrected,
                                                        snip.corrected_by_user)]
         [] o = "finish" -> [snip EXCEPT !.finished_ts = now]
         [] o = "abandon" -> [snip EXCEPT !.accepted_ts = 0]
         [] OTHER -> snip
\* the record after one iteration of the loop
LoopBody(snip, uri, text, now) ==
    LET o == Outcome(snip, uri, text)
    IN CASE o = "update" ->
              LET grey_corrected == Classify(snip, text).text
              IN [snip EXCEPT !.corrected_by_user = replace_cr(grey_corrected),
                              !.remaining_percentage =
                                   unchanged_percentage(grey_corrected, snip.grey_text)]
         [] o = "finish" -> [snip EXCEPT !.finished_ts = now]
         [] o = "abandon" -> [snip EXCEPT !.accepted_ts = 0]
         [] OTHER -> snip

\* what a collaborator is handed of a finished snippet
Handed(snip) ==
    [snippet_telemetry_id |-> snip.snippet_telemetry_id,
     corrected_by_user |-> snip.corrected_by_user,
     remaining_percentage |-> snip.remaining_percentage,
     finished_ts |-> snip.finished_ts]

\* finished_snips: the records finished by the loop, in loop order
RECURSIVE FinishedSnips(_, _, _, _)
FinishedSnips(snips, new_snips, uri, text) ==
    IF snips = <<>> THEN <<>>
    ELSE (IF Outcome(Head(snips), uri, text) = "finish"
          THEN <<Handed(Head(new_snips))>> ELSE <<>>)
         \o FinishedSnips(Tail(snips), Tail(new_snips), uri, text)

\* ids of the records of snips that an iteration treats as o
IdsWithOutcome(snips, o, uri, text) ==
    {snips[i].snippet_telemetry_id :
        i \in {j \in 1..Len(snips) : Outcome(snips[j], uri, text) = o}}

\* tele_storage.write()
SourcesChangedLock(t) ==
    /\ pc[t] = "idle"
    /\ LockFree(t)
    /\ lock' = t
    /\ pc' = [pc EXCEPT ![t] = "sc_locked"]
    /\ local' = [local EXCEPT ![t] = [kind |-> "sources_changed"]]
    /\ UNCHANGED <<store, outputs, history, call>>

\* the loop over tele_snippets and the loop over finished_snips; nows are the
\* clock readings of the iterations that finish a record
SourcesChangedBody(t) ==
    /\ pc[t] = "sc_locked"
    /\ \E uri \in Uris, text \in NewTexts :
       \E nows \in [{i \in 1..Len(tele_snippets) :
                        Outcome(tele_snippets[i], uri, text) = "finish"} -> Timestamps] :
        LET new_snips == [i \in 1..Len(tele_snippets) |->
                             LoopBody(tele_snippets[i], uri, text,
                                      IF i \in DOMAIN nows THEN nows[i] ELSE 0)]
            finished_snips == FinishedSnips(tele_snippets, new_snips, uri, text)
        IN /\ tele_snippets' = new_snips
           /\ tele_robot_human' = tele_robot_human \o finished_snips
           /\ snippet_data_accumulators' = snippet_data_accumulators \o finished_snips
           /\ history' =
                IF ~history.on THEN history
                ELSE [history EXCEPT
                        !.scored = @ \cup
                            {new_snips[i].snippet_telemetry_id : i \in
                                {j \in 1..Len(new_snips) :
                                    /\ Outcome(tele_snippets[j], uri, text) = "update"
                                    /\ GeZero(new_snips[j].remaining_percentage)}},
                        !.abandoned = @ \cup
                            IdsWithOutcome(tele_snippets, "abandon", uri, text),
                        !.updated =
                            [id \in AcceptIds |->
                                IF id \in IdsWithOutcome(tele_snippets, "update", uri, text)
                                THEN LET j == FindSnippet(id)
                                     IN [written |-> TRUE,
                                         corrected_by_user |->
                                             new_snips[j].corrected_by_user,
                                         remaining_percentage |->
                                             new_snips[j].remaining_percentage]
                                ELSE @[id]]]
           /\ local' = [local EXCEPT ![t] =
                [kind |-> "sources_changed", uri |-> uri, text |-> text,
                 finished_snips |-> finished_snips]]
    /\ pc' = [pc EXCEPT ![t] = "sc_done"]
    /\ UNCHANGED <<tele_snippet_next_id, lock, call>>

(***************************************************************************)
(* Return: the write guard is dropped when the function returns             *)
(***************************************************************************)
DonePcs == {"reg_done", "acc_done", "sc_done"}

Return(t) ==
    /\ pc[t] \in DonePcs
    /\ lock' = IF lock = t THEN NoTask ELSE lock
    /\ pc' = [pc EXCEPT ![t] = "idle"]
    /\ local' = [local EXCEPT ![t] = NoLocal]
    /\ UNCHANGED <<store, outputs, history, call>>

Next ==
    \E t \in Tasks :
        \/ RegisterEmpty(t)
        \/ RegisterLock(t)
        \/ RegisterPush(t)
        \/ AcceptLock(t)
        \/ AcceptBody(t)
        \/ SourcesChangedLock(t)
        \/ SourcesChangedBody(t)
        \/ Return(t)

Spec == Init /\ [][Next]_vars

\* the same program, observed with the history
SpecHistory == InitHistory /\ [][Next]_vars

(***************************************************************************)
(* The functions of utils.rs, called on their own: one call per behaviour,  *)
(* its arguments drawn by the initial state                                 *)
(***************************************************************************)
\* lines a text is made of: plain, sharing a prefix, whitespace-only, CR LF
TextLines == {<<"a", NL>>, <<"b", NL>>, <<"a", "b", NL>>, <<" ", NL>>, <<"a", CR, NL>>}

\* the texts of at most n lines
RECURSIVE Texts(_)
Texts(n) ==
    IF n = 0 THEN {<<>>}
    ELSE Texts(n - 1) \cup {t \o l : t \in Texts(n - 1), l \in TextLines}

\* orig_grey_text without and with a "\n"
SuggestedTexts == {<<"b">>, <<"b", NL>>}

\* texts of the worked examples
Foo == <<"f", "o", "o", NL>>
Bar == <<"b", "a", "r", NL>>
FooBar == <<"f", "o", "o", "b", "a", "r", NL>>
Line1Line2 == <<"l", "i", "n", "e", "1", NL, "l", "i", "n", "e", "2", NL>>
Line1Line2Modified ==
    <<"L", "I", "N", "E", "1", NL,
      "l", "i", "n", "e", "2", "m", "o", "d", "i", "f", "i", "e", "d", NL>>

\* the arguments of the calls of if_head_tail_equal_return_added_text
ClassifyCalls ==
    {[fn |-> "if_head_tail_equal_return_added_text", done |-> FALSE,
      text_a |-> a, text_b |-> b, orig_grey_text |-> g] :
        a \in Texts(MaxLines), b \in Texts(MaxLines), g \in SuggestedTexts}
    \cup
    {[fn |-> "if_head_tail_equal_return_added_text", done |-> FALSE,
      text_a |-> Foo, text_b |-> FooBar, orig_grey_text |-> Bar]}
    \cup
    {[fn |-> "if_head_tail_equal_return_added_text", done |-> FALSE,
      text_a |-> Line1Line2, text_b |-> Line1Line2Modified, orig_grey_text |-> g] :
        g \in SuggestedTexts \cup {<<>>, Bar}}

\* values of the changes handed to the loop: lines as above and a last line
\* without terminator
ChangeLines == {<<"a", NL>>, <<"b", NL>>, <<"a", "b", NL>>, <<" ", NL>>, <<"a">>}
ChangeTags == {"Delete", "Insert", "Equal"}
Changes == [tag : ChangeTags, value : ChangeLines]

\* the sequences of at most n changes
RECURSIVE ChangeSeqs(_)
ChangeSeqs(n) ==
    IF n = 0 THEN {<<>>}
    ELSE ChangeSeqs(n - 1) \cup {Append(cs, c) : cs \in ChangeSeqs(n - 1), c \in Changes}

\* the loop of if_head_tail_equal_return_added_text is run on every sequence
\* of changes, the sequences a diff of two texts yields among them
LoopCalls ==
    {[fn |-> "ClassifyChanges", done |-> FALSE, changes |-> cs, orig_grey_text |-> g] :
        cs \in ChangeSeqs(MaxChanges), g \in SuggestedTexts}

\* the strings of at most n characters
RECURSIVE Strings(_)
Strings(n) ==
    IF n = 0 THEN {<<>>}
    ELSE Strings(n - 1) \cup {Append(x, c) : x \in Strings(n - 1), c \in {"a", "b"}}

UnchangedPercentageCalls ==
    {[fn |-> "unchanged_percentage", done |-> FALSE, text_a |-> a, text_b |-> b] :
        a \in Strings(MaxChars), b \in Strings(MaxChars)}

AddDelCalls ==
    {[fn |-> "get_add_del_from_texts", done |-> FALSE, text_a |-> a, text_b |-> b] :
        a \in Texts(MaxLines), b \in Texts(MaxLines)}

\* lines of a grey text: sharing characters with the lines of the texts or
\* not, ending with "\n" or "\r\n"
GreyLines == {<<"a", NL>>, <<"a", "b", CR, NL>>, <<"c", NL>>}

\* the grey texts of at most n lines
RECURSIVE GreyTexts(_)
GreyTexts(n) ==
    IF n = 0 THEN {<<>>}
    ELSE GreyTexts(n - 1) \cup {t \o l : t \in GreyTexts(n - 1), l \in GreyLines}

ApproxCalls ==
    {[fn |-> "unchanged_percentage_approx", done |-> FALSE,
      text_a |-> a, text_b |-> b, grey_text_a |-> g] :
        a \in {<<>>, <<"a", NL>>}, b \in Texts(MaxLines), g \in GreyTexts(MaxLines)}

InitUtils ==
    /\ InitProgram
    /\ history = NoHistory
    /\ call \in ClassifyCalls \cup LoopCalls \cup UnchangedPercentageCalls
                \cup AddDelCalls \cup ApproxCalls

CallIfHeadTailEqual ==
    /\ call.fn = "if_head_tail_equal_return_added_text" /\ ~call.done
    /\ call' = [fn |-> call.fn, done |-> TRUE,
                text_a |-> call.text_a, text_b |-> call.text_b,
                orig_grey_text |-> call.orig_grey_text,
                ret |-> if_head_tail_equal_return_added_text(
                            call.text_a, call.text_b, call.orig_grey_text)]
    /\ UNCHANGED <<store, outputs, lock, pc, local, history>>

CallClassifyChanges ==
    /\ call.fn = "ClassifyChanges" /\ ~call.done
    /\ call' = [fn |-> call.fn, done |-> TRUE,
                changes |-> call.changes, orig_grey_text |-> call.orig_grey_text,
                ret |-> ClassifyChanges(call.changes, call.orig_grey_text)]
    /\ UNCHANGED <<store, outputs, lock, pc, local, history>>

CallUnchangedPercentage ==
    /\ call.fn = "unchanged_percentage" /\ ~call.done
    /\ call' = [fn |-> call.fn, done |-> TRUE,
                text_a |-> call.text_a, text_b |-> call.text_b,
                ret |-> unchanged_percentage(call.text_a, call.text_b)]
    /\ UNCHANGED <<store, outputs, lock, pc, local, history>>

CallGetAddDel ==
    /\ call.fn = "get_add_del_from_texts" /\ ~call.done
    /\ call' = [fn |-> call.fn, done |-> TRUE,
                text_a |-> call.text_a, text_b |-> call.text_b,
                ret |-> get_add_del_from_texts(call.text_a, call.text_b)]
    /\ UNCHANGED <<store, outputs, lock, pc, local, history>>

\* the call keeps, next to the value returned, the locals common and
\* a_idx_taken as they are at the return
CallUnchangedPercentageApprox ==
    /\ call.fn = "unchanged_percentage_approx" /\ ~call.done
    /\ call' = [fn |-> call.fn, done |-> TRUE,
                text_a |-> call.text_a, text_b |-> call.text_b,
                grey_text_a |-> call.grey_text_a,
                locals |-> ApproxLocals(call.text_a, call.text_b, call.grey_text_a),
                ret |-> unchanged_percentage_approx(
                            call.text_a, call.text_b, call.grey_text_a)]
    /\ UNCHANGED <<store, outputs, lock, pc, local, history>>

NextUtils ==
    \/ CallIfHeadTailEqual
    \/ CallClassifyChanges
    \/ CallUnchangedPercentage
    \/ CallGetAddDel
    \/ CallUnchangedPercentageApprox

SpecUtils == InitUtils /\ [][NextUtils]_vars

(***************************************************************************)
(* Steps of the calls, as seen between two states                           *)
(***************************************************************************)
\* task t returns from snippet_register_from_data4cache without registering
RegisterEmptyStep(t) == pc[t] = "idle" /\ pc'[t] = "reg_done"
\* task t runs the body of snippet_register
RegisterPushStep(t) == pc[t] = "reg_locked" /\ pc'[t] = "reg_done"
\* task t runs the body of snippet_accepted
AcceptStep(t) == pc[t] = "acc_locked" /\ pc'[t] = "acc_done"
\* task t runs the body of sources_changed
SourcesChangedStep(t) == pc[t] = "sc_locked" /\ pc'[t] = "sc_done"

SnippetIds(snips) == {snips[i].snippet_telemetry_id : i \in 1..Len(snips)}

\* how many times id occurs in a sequence of handed snippets
Count(handed, id) == Cardinality({k \in 1..Len(handed) : handed[k].snippet_telemetry_id = id})

(***************************************************************************)
(* C1                                                                       *)
(***************************************************************************)
\* C1: the ids of the records are strictly increasing in the order the records
\* were appended (hence pairwise distinct), every issued id is below the
\* next-id counter, and an id returned by a register call is the id of a
\* record of the store.
C1_IdsStrictlyIncreasing ==
    /\ \A i, j \in 1..Len(tele_snippets) :
          i < j => tele_snippets[i].snippet_telemetry_id < tele_snippets[j].snippet_telemetry_id
    /\ \A i \in 1..Len(tele_snippets) :
          tele_snippets[i].snippet_telemetry_id < tele_snippet_next_id
    /\ \A t \in Tasks :
          (pc[t] = "reg_done" /\ local[t].ret # NoneId)
              => Cardinality({i \in 1..Len(tele_snippets) :
                     tele_snippets[i].snippet_telemetry_id = local[t].ret}) = 1

\* two records are in the store and a register call is returning the id of the second
C1_Witness ==
    /\ Len(tele_snippets) >= 2
    /\ \E t \in Tasks :
          /\ pc[t] = "reg_done"
          /\ local[t].ret = tele_snippets[2].snippet_telemetry_id
          /\ local[t].ret # tele_snippets[1].snippet_telemetry_id

(***************************************************************************)
(* C2                                                                       *)
(***************************************************************************)
\* C2: a CompletionServed event with an empty finish reason leaves the store
\* and the outputs unchanged and yields no id; one with a non-empty finish
\* reason appends exactly one record, with accepted_ts = 0, finished_ts = 0,
\* empty corrected_by_user and the negative remaining_percentage, leaves the
\* earlier records as they were, and returns the id of the new record.
C2_RegisterIffFinishReason ==
    [][\A t \in Tasks :
        /\ RegisterEmptyStep(t) =>
              /\ local'[t].finish_reason = ""
              /\ local'[t].ret = NoneId
              /\ UNCHANGED <<store, outputs>>
        /\ RegisterPushStep(t) =>
              /\ local'[t].finish_reason # ""
              /\ Len(tele_snippets') = Len(tele_snippets) + 1
              /\ SubSeq(tele_snippets', 1, Len(tele_snippets)) = tele_snippets
              /\ LET snip == tele_snippets'[Len(tele_snippets')]
                 IN /\ snip.accepted_ts = 0
                    /\ snip.finished_ts = 0
                    /\ snip.corrected_by_user = <<>>
                    /\ snip.remaining_percentage.num < 0
                    /\ snip.remaining_percentage = NotEvaluated
                    /\ local'[t].ret = snip.snippet_telemetry_id
                    /\ local'[t].ret # NoneId
              /\ UNCHANGED outputs
      ]_vars

\* one call returned without an id while the store holds the record, with a
\* non-empty suggested text, that another call is returning the id of
C2_Witness ==
    \E t, u \in Tasks :
        /\ pc[t] = "reg_done" /\ local[t].ret = NoneId /\ local[t].finish_reason = ""
        /\ pc[u] = "reg_done" /\ local[u].ret # NoneId /\ local[u].finish_reason # ""
        /\ Len(tele_snippets) = 1
        /\ tele_snippets[1].snippet_telemetry_id = local[u].ret
        /\ tele_snippets[1].grey_text # <<>>

(***************************************************************************)
(* C3                                                                       *)
(***************************************************************************)
\* C3: snippet_accepted with an id that no record of the store has returns
\* false and leaves every record, the next-id counter and the outputs as they
\* were.
C3_AcceptUnknownIsNoOp ==
    [][\A t \in Tasks :
        (AcceptStep(t) /\ local'[t].snippet_telemetry_id \notin SnippetIds(tele_snippets)) =>
            /\ local'[t].ret = FALSE
            /\ UNCHANGED <<store, outputs>>
      ]_vars

\* a call with an unknown id returned false on a store that holds records, one
\* of them accepted
C3_Witness ==
    \E t \in Tasks :
        /\ pc[t] = "acc_done"
        /\ local[t].ret = FALSE
        /\ local[t].snippet_telemetry_id \notin SnippetIds(tele_snippets)
        /\ Len(tele_snippets) = MaxSnippets
        /\ \E i \in 1..Len(tele_snippets) : tele_snippets[i].accepted_ts # 0

(***************************************************************************)
(* C4                                                                       *)
(***************************************************************************)
\* C4: snippet_accepted with the id of a record whose finished_ts is not 0
\* returns false and leaves the store and the outputs as they were.
C4_AcceptFinishedIsNoOp ==
    [][\A t \in Tasks :
        (/\ AcceptStep(t)
         /\ \E i \in 1..Len(tele_snippets) :
               /\ tele_snippets[i].snippet_telemetry_id = local'[t].snippet_telemetry_id
               /\ tele_snippets[i].finished_ts # 0) =>
            /\ local'[t].ret = FALSE
            /\ UNCHANGED <<store, outputs>>
      ]_vars

(***************************************************************************)
(* C5                                                                       *)
(***************************************************************************)
\* C5: a record whose finished_ts is not 0 is never changed again, by any step
\* of any call.
C5_FinishedIsImmutable ==
    [][\A i \in 1..Len(tele_snippets) :
        tele_snippets[i].finished_ts # 0 =>
            /\ i <= Len(tele_snippets')
            /\ tele_snippets'[i] = tele_snippets[i]
      ]_vars

\* what does hold of a finished record: every step leaves all of its fields
\* but accepted_ts as they were, and only snippet_accepted writes accepted_ts
C5_FinishedChangesOnlyByAccept ==
    [][\A i \in 1..Len(tele_snippets) :
        tele_snippets[i].finished_ts # 0 =>
            /\ i <= Len(tele_snippets')
            /\ [tele_snippets'[i] EXCEPT !.accepted_ts = 0]
                  = [tele_snippets[i] EXCEPT !.accepted_ts = 0]
            /\ tele_snippets'[i].accepted_ts # tele_snippets[i].accepted_ts =>
                  \E t \in Tasks :
                     /\ AcceptStep(t)
                     /\ local'[t].snippet_telemetry_id = tele_snippets[i].snippet_telemetry_id
      ]_vars

(***************************************************************************)
(* C6                                                                       *)
(***************************************************************************)
\* C6 as claimed: while no call holds the write guard, every record with
\* accepted_ts # 0 has finished_ts = 0.
C6_AcceptedImpliesUnfinished ==
    lock = NoTask =>
        \A i \in 1..Len(tele_snippets) :
            tele_snippets[i].accepted_ts # 0 => tele_snippets[i].finished_ts = 0

\* C6 as amended: finishing a record leaves its accepted_ts set, so a finished
\* record is an accepted one: in every state, every record with
\* finished_ts # 0 has accepted_ts # 0 (accepted_ts = 0 implies finished_ts = 0).
C6_FinishedImpliesAccepted ==
    \A i \in 1..Len(tele_snippets) :
        tele_snippets[i].finished_ts # 0 => tele_snippets[i].accepted_ts # 0

\* no call holds the write guard and the store holds a finished record
C6_Witness ==
    /\ lock = NoTask
    /\ \E i \in 1..Len(tele_snippets) :
          /\ tele_snippets[i].finished_ts # 0
          /\ tele_snippets[i].accepted_ts # 0
          /\ Count(tele_robot_human, tele_snippets[i].snippet_telemetry_id) = 1

(***************************************************************************)
(* C7                                                                       *)
(***************************************************************************)
\* the loop of this step classifies record i, eligible, as NotAttributable
NotAttributableAt(t, i) ==
    /\ SourcesChangedStep(t)
    /\ Eligible(tele_snippets[i], local'[t].uri)
    /\ ~Classify(tele_snippets[i], local'[t].text).valid

\* C7: a record that got an Attributable update with a score >= 0 and is later
\* classified NotAttributable is finished by that call and handed once to
\* each of the two collaborators; and no record is ever handed twice to either.
C7_ScoredThenRejectedIsFinalizedOnce ==
    [][/\ \A t \in Tasks : \A i \in 1..Len(tele_snippets) :
            (/\ NotAttributableAt(t, i)
             /\ tele_snippets[i].snippet_telemetry_id \in history.scored) =>
                /\ tele_snippets'[i].finished_ts # 0
                /\ Count(tele_robot_human', tele_snippets[i].snippet_telemetry_id) = 1
                /\ Count(snippet_data_accumulators', tele_snippets[i].snippet_telemetry_id) = 1
       /\ \A i \in 1..Len(tele_snippets') :
            /\ Count(tele_robot_human', tele_snippets'[i].snippet_telemetry_id) <= 1
            /\ Count(snippet_data_accumulators', tele_snippets'[i].snippet_telemetry_id) <= 1
      ]_vars

\* what does hold: the same, for a record whose score is >= 0 when it is
\* classified NotAttributable
C7_ValidScoreThenRejectedIsFinalizedOnce ==
    [][/\ \A t \in Tasks : \A i \in 1..Len(tele_snippets) :
            (/\ NotAttributableAt(t, i)
             /\ GeZero(tele_snippets[i].remaining_percentage)) =>
                /\ tele_snippets'[i].finished_ts # 0
                /\ Count(tele_robot_human', tele_snippets[i].snippet_telemetry_id) = 1
                /\ Count(snippet_data_accumulators', tele_snippets[i].snippet_telemetry_id) = 1
       /\ \A i \in 1..Len(tele_snippets') :
            /\ Count(tele_robot_human', tele_snippets'[i].snippet_telemetry_id) <= 1
            /\ Count(snippet_data_accumulators', tele_snippets'[i].snippet_telemetry_id) <= 1
      ]_vars

(***************************************************************************)
(* C8                                                                       *)
(***************************************************************************)
\* the snippets handed to a collaborator hold none with this id
NeverHanded(id) ==
    /\ Count(tele_robot_human, id) = 0
    /\ Count(snippet_data_accumulators, id) = 0

\* C8 as claimed: a record that sources_changed abandoned (accepted, score not
\* >= 0, classified NotAttributable, accepted_ts reset to 0) is in no later
\* state finished or handed to a collaborator.
C8_AbandonedNeverFinalized ==
    \A i \in 1..Len(tele_snippets) :
        tele_snippets[i].snippet_telemetry_id \in history.abandoned =>
            /\ tele_snippets[i].finished_ts = 0
            /\ NeverHanded(tele_snippets[i].snippet_telemetry_id)

\* C8 as amended: the call that classifies an accepted record without a score
\* >= 0 as NotAttributable resets its accepted_ts to 0, changes no other field
\* of it and hands it to no collaborator; and as long as accepted_ts is 0 (until
\* a later snippet_accepted sets it again) every sources_changed pass leaves the
\* record as it is and hands it to no collaborator.
C8_AbandonResetsAndSkips ==
    [][\A t \in Tasks : \A i \in 1..Len(tele_snippets) :
        LET snip == tele_snippets[i]
            handed_now == {local'[t].finished_snips[k].snippet_telemetry_id :
                              k \in 1..Len(local'[t].finished_snips)}
        IN /\ (NotAttributableAt(t, i) /\ ~GeZero(snip.remaining_percentage)) =>
                /\ tele_snippets'[i] = [snip EXCEPT !.accepted_ts = 0]
                /\ snip.snippet_telemetry_id \notin handed_now
                /\ Count(tele_robot_human', snip.snippet_telemetry_id)
                      = Count(tele_robot_human, snip.snippet_telemetry_id)
                /\ Count(snippet_data_accumulators', snip.snippet_telemetry_id)
                      = Count(snippet_data_accumulators, snip.snippet_telemetry_id)
           /\ (SourcesChangedStep(t) /\ snip.accepted_ts = 0) =>
                /\ tele_snippets'[i] = snip
                /\ snip.snippet_telemetry_id \notin handed_now
      ]_vars

\* a sources_changed call has just abandoned a record that was accepted and
\* had no score: its accepted_ts is 0 and it was handed to nobody
C8_Witness ==
    \E t \in Tasks : \E i \in 1..Len(tele_snippets) :
        /\ pc[t] = "sc_done"
        /\ local[t].finished_snips = <<>>
        /\ tele_snippets[i].file \in DOMAIN tele_snippets[i].sources
        /\ ends_with(local[t].uri, tele_snippets[i].file)
        /\ ~Classify(tele_snippets[i], local[t].text).valid
        /\ tele_snippets[i].snippet_telemetry_id \in history.abandoned
        /\ tele_snippets[i].accepted_ts = 0
        /\ tele_snippets[i].remaining_percentage = NotEvaluated
        /\ NeverHanded(tele_snippets[i].snippet_telemetry_id)

(***************************************************************************)
(* C9                                                                       *)
(***************************************************************************)
\* ids of the snippets the sources_changed call of task t is handing over
HandedNow(t) ==
    {local'[t].finished_snips[k].snippet_telemetry_id :
        k \in 1..Len(local'[t].finished_snips)}

\* C9: sources_changed(uri, text) leaves as it is, and hands to no
\* collaborator, every record that is not accepted, or is finished, or whose
\* file is not a suffix of uri, or whose sources lack its file; it adds and
\* removes no record; and every other record is processed (updated, finished
\* or abandoned) whatever records with missing sources stand before it.
C9_SourcesChangedFrame ==
    [][\A t \in Tasks : SourcesChangedStep(t) =>
        /\ Len(tele_snippets') = Len(tele_snippets)
        /\ tele_snippet_next_id' = tele_snippet_next_id
        /\ \A i \in 1..Len(tele_snippets) :
            LET snip == tele_snippets[i]
                uri == local'[t].uri
                text == local'[t].text
                suffix == /\ Len(snip.file) <= Len(uri)
                          /\ \A k \in 1..Len(snip.file) :
                                snip.file[k] = uri[Len(uri) - Len(snip.file) + k]
            IN IF \/ snip.accepted_ts = 0
                  \/ snip.finished_ts # 0
                  \/ ~suffix
                  \/ snip.file \notin DOMAIN snip.sources
               THEN /\ tele_snippets'[i] = snip
                    /\ snip.snippet_telemetry_id \notin HandedNow(t)
               ELSE LET r == if_head_tail_equal_return_added_text(
                                 snip.sources[snip.file], text, snip.grey_text)
                    IN \/ /\ r.valid
                          /\ tele_snippets'[i].corrected_by_user = r.text
                          /\ tele_snippets'[i].finished_ts = 0
                       \/ /\ ~r.valid
                          /\ tele_snippets'[i].finished_ts # 0
                       \/ /\ ~r.valid
                          /\ tele_snippets'[i].accepted_ts = 0
      ]_vars

\* a call for "/a" with one line appended has just run over a store whose
\* first record is accepted and lacks the source of its own file, left as it
\* was, and whose second record took the appended line as its corrected text
C9_Witness ==
    \E t \in Tasks :
        /\ pc[t] = "sc_done"
        /\ local[t].uri = <<"/", "a">>
        /\ local[t].text = <<"a", NL, "b", NL>>
        /\ Len(tele_snippets) = 2
        /\ tele_snippets[1].file \notin DOMAIN tele_snippets[1].sources
        /\ tele_snippets[1].accepted_ts # 0
        /\ tele_snippets[1].remaining_percentage = NotEvaluated
        /\ tele_snippets[1].corrected_by_user = <<>>
        /\ tele_snippets[2].accepted_ts # 0
        /\ tele_snippets[2].finished_ts = 0
        /\ tele_snippets[2].corrected_by_user = <<"b", NL>>

(***************************************************************************)
(* C10                                                                      *)
(***************************************************************************)
\* corrected text and score of an Attributable edit of "a\n", worked by hand
\* for the texts and suggestions of the model
ExpectedUpdate(text, grey) ==
    CASE text = <<"a", NL, "b", NL>> /\ grey = <<"b", NL>> ->
            [corrected |-> <<"b", NL>>, score |-> [num |-> 1, den |-> 1]]
      [] text = <<"a", NL, "b", NL>> /\ grey = <<>> ->
            [corrected |-> <<"b", NL>>, score |-> [num |-> 0, den |-> 1]]
      [] text = <<"a", NL>> /\ grey = <<"b", NL>> ->
            [corrected |-> <<>>, score |-> [num |-> 0, den |-> 1]]
      [] text = <<"a", NL>> /\ grey = <<>> ->
            [corrected |-> <<>>, score |-> [num |-> 0, den |-> 0]]
      [] OTHER -> [corrected |-> <<"?">>, score |-> [num |-> 0, den |-> 1]]

\* C10: when sources_changed classifies the edit of an eligible record as
\* Attributable, the record gets the added text as corrected_by_user and
\* unchanged_percentage(added text, grey_text) as remaining_percentage, keeps
\* accepted_ts, finished_ts and all its other fields, and is handed to no
\* collaborator by that call.
C10_AttributableUpdate ==
    [][\A t \in Tasks : \A i \in 1..Len(tele_snippets) :
        LET snip == tele_snippets[i]
            id == snip.snippet_telemetry_id
        IN (/\ SourcesChangedStep(t)
            /\ snip.accepted_ts # 0
            /\ snip.finished_ts = 0
            /\ ends_with(local'[t].uri, snip.file)
            /\ snip.file \in DOMAIN snip.sources
            /\ if_head_tail_equal_return_added_text(
                   snip.sources[snip.file], local'[t].text, snip.grey_text).valid) =>
              LET added == if_head_tail_equal_return_added_text(
                               snip.sources[snip.file], local'[t].text, snip.grey_text).text
                  expected == ExpectedUpdate(local'[t].text, snip.grey_text)
              IN /\ tele_snippets'[i] =
                        [snip EXCEPT !.corrected_by_user = added,
                                     !.remaining_percentage =
                                          unchanged_percentage(added, snip.grey_text)]
                 /\ tele_snippets'[i].corrected_by_user = expected.corrected
                 /\ tele_snippets'[i].remaining_percentage = expected.score
                 /\ tele_snippets'[i].accepted_ts = snip.accepted_ts
                 /\ tele_snippets'[i].finished_ts = 0
                 /\ id \notin HandedNow(t)
                 /\ Count(tele_robot_human', id) = Count(tele_robot_human, id)
                 /\ Count(snippet_data_accumulators', id) = Count(snippet_data_accumulators, id)
      ]_vars

\* a call has just updated an accepted record: corrected text "b\n", the whole
\* suggestion kept, record still accepted and unfinished, nothing handed over
C10_Witness ==
    \E t \in Tasks : \E i \in 1..Len(tele_snippets) :
        /\ pc[t] = "sc_done"
        /\ local[t].text = <<"a", NL, "b", NL>>
        /\ local[t].finished_snips = <<>>
        /\ ends_with(local[t].uri, tele_snippets[i].file)
        /\ tele_snippets[i].file \in DOMAIN tele_snippets[i].sources
        /\ tele_snippets[i].grey_text = <<"b", NL>>
        /\ tele_snippets[i].corrected_by_user = <<"b", NL>>
        /\ tele_snippets[i].remaining_percentage = [num |-> 1, den |-> 1]
        /\ tele_snippets[i].accepted_ts # 0
        /\ tele_snippets[i].finished_ts = 0
        /\ tele_robot_human = <<>>

(***************************************************************************)
(* C11                                                                      *)
(***************************************************************************)
\* a score between 0.0 and 1.0, both included; NaN is not one
InUnitInterval(r) == r.den # 0 /\ 0 <= r.num /\ r.num <= r.den

\* C11: in every reachable state of the store the remaining_percentage of
\* every record is a number between 0.0 and 1.0 or the sentinel -1. of a
\* record that was never scored; this covers the records whose grey text is
\* empty and whose update had an empty added text.
C11_RemainingInUnitIntervalOrSentinel ==
    \A i \in 1..Len(tele_snippets) :
        \/ tele_snippets[i].remaining_percentage = NotEvaluated
        \/ InUnitInterval(tele_snippets[i].remaining_percentage)

(***************************************************************************)
(* C12                                                                      *)
(***************************************************************************)
\* task t holds the write guard: it is between storage_arc.write() and the
\* return of snippet_register, snippet_accepted or sources_changed
InCriticalSection(t) ==
    \/ pc[t] \in {"reg_locked", "acc_locked", "sc_locked", "acc_done", "sc_done"}
    \/ pc[t] = "reg_done" /\ local[t].ret # NoneId

\* at most one task is inside a critical section, and it is the lock holder
MutualExclusion ==
    /\ \A t \in Tasks : InCriticalSection(t) <=> lock = t
    /\ \A t, u \in Tasks : InCriticalSection(t) /\ InCriticalSection(u) => t = u

\* C12: concurrent calls of snippet_register, snippet_accepted and
\* sources_changed are serialized by the write guard of the store: at most one
\* call is inside its critical section; the store and the delivered snippets
\* change only in the body step of the call that holds the guard before and
\* after the step, so the whole read-modify-write of a call lies in one
\* critical section; and the counter value snippet_register read when it took
\* the guard is still the value of the counter when it pushes, so no call
\* sees or overwrites the work of another call half done.
C12_CallsAreSerialized ==
    [][/\ MutualExclusion'
       /\ (store' # store \/ outputs' # outputs) =>
             \E t \in Tasks :
                /\ lock = t /\ lock' = t
                /\ RegisterPushStep(t) \/ AcceptStep(t) \/ SourcesChangedStep(t)
                /\ \A u \in Tasks \ {t} : pc'[u] = pc[u] /\ local'[u] = local[u]
       /\ \A t \in Tasks :
             pc'[t] = "reg_locked" =>
                local'[t].snippet_telemetry_id = tele_snippet_next_id'
      ]_vars

\* two calls are in flight: one holds the guard in the middle of
\* snippet_register on a store that already has an accepted record, the other
\* is inside snippet_register_from_data4cache
C12_Witness ==
    \E t, u \in Tasks :
        /\ t # u
        /\ pc[t] = "reg_locked" /\ lock = t
        /\ pc[u] = "reg_done"
        /\ \E i \in 1..Len(tele_snippets) : tele_snippets[i].accepted_ts > 0

(***************************************************************************)
(* C13                                                                      *)
(***************************************************************************)
\* the call of the function fn has returned
Returned(fn) == call.fn = fn /\ call.done

\* the call if_head_tail_equal_return_added_text("foo\n", "foobar\n", "bar\n")
\* has returned
FooBarReturned ==
    /\ Returned("if_head_tail_equal_return_added_text")
    /\ call.text_a = Foo /\ call.text_b = FooBar /\ call.orig_grey_text = Bar

\* C13: for text_a = "foo\n", orig_grey_text = "bar\n" and text_b = "foobar\n"
\* the classification returns (true, "bar\n").
C13_FooBarYieldsBarWithTerminator ==
    FooBarReturned => call.ret = [valid |-> TRUE, text |-> Bar]

\* C13, amended: for the same arguments the classification returns
\* (true, "bar"): the line diff deletes "foo\n" and inserts "foobar\n", the
\* deleted "foo" is cut from the head of the inserted line, and because the
\* deleted line ended with "\n" one "\n" is cut from the end of the added text.
C13_FooBarYieldsBar ==
    FooBarReturned => call.ret = [valid |-> TRUE, text |-> <<"b", "a", "r">>]

C13_Witness ==
    /\ FooBarReturned
    /\ iter_all_changes(tokenize_lines(call.text_a), tokenize_lines(call.text_b))
         = <<[tag |-> "Delete", value |-> Foo], [tag |-> "Insert", value |-> FooBar]>>

(***************************************************************************)
(* C14                                                                      *)
(***************************************************************************)
\* the changes of the call that returned: the ones handed to the loop, or the
\* line diff of the two texts
ChangesOfCall ==
    IF call.fn = "ClassifyChanges" THEN call.changes
    ELSE iter_all_changes(tokenize_lines(call.text_a), tokenize_lines(call.text_b))

\* the call that returned is a classification
ClassificationReturned ==
    Returned("ClassifyChanges") \/ Returned("if_head_tail_equal_return_added_text")

\* positions of the changes with the tag that have a character outside \s
NonSpaceAt(changes, tag) ==
    {k \in 1..Len(changes) :
        /\ changes[k].tag = tag
        /\ \E i \in 1..Len(changes[k].value) :
              changes[k].value[i] \notin WhitespaceChars}

\* C14: whenever the changes contain two deleted lines that are not
\* whitespace-only the classification returns false, whatever is inserted and
\* whatever the grey text is; so it does for text_a = "line1\nline2\n",
\* text_b = "LINE1\nline2modified\n".
C14_SecondDeletionRejects ==
    ClassificationReturned =>
        /\ Cardinality(NonSpaceAt(ChangesOfCall, "Delete")) >= 2 => ~call.ret.valid
        /\ (/\ call.fn = "if_head_tail_equal_return_added_text"
            /\ call.text_a = Line1Line2
            /\ call.text_b = Line1Line2Modified) => ~call.ret.valid

\* the worked example has returned, and its diff deletes both lines
C14_Witness ==
    /\ Returned("if_head_tail_equal_return_added_text")
    /\ call.text_a = Line1Line2 /\ call.text_b = Line1Line2Modified
    /\ Cardinality(NonSpaceAt(ChangesOfCall, "Delete")) = 2

(***************************************************************************)
(* C15                                                                      *)
(***************************************************************************)
\* an inserted line, later an equal or a deleted line, later an inserted line
InsertionResumes(changes) ==
    \E i, j, k \in 1..Len(changes) :
        /\ i < j /\ j < k
        /\ changes[i].tag = "Insert"
        /\ changes[j].tag \in {"Equal", "Delete"}
        /\ changes[k].tag = "Insert"

\* C15: whenever the changes hold an inserted line that is followed by an
\* equal or a deleted line and then by another inserted line, the
\* classification returns false, for a grey text with and without "\n".
C15_SecondInsertionBlockRejects ==
    ClassificationReturned /\ InsertionResumes(ChangesOfCall) => ~call.ret.valid

\* the changes have two insertions around an equal line, the grey text has
\* several lines, and no other rule rejects the edit: the lines are not
\* whitespace-only and nothing is deleted
C15_Witness ==
    /\ ClassificationReturned
    /\ contains_nl(call.orig_grey_text)
    /\ ChangesOfCall = <<[tag |-> "Insert", value |-> <<"b", NL>>],
                         [tag |-> "Equal", value |-> <<"a", NL>>],
                         [tag |-> "Insert", value |-> <<"b", NL>>]>>

(***************************************************************************)
(* C16                                                                      *)
(***************************************************************************)
\* positions of the inserted lines that are whitespace-only
SpaceOnlyInserts(changes) ==
    {i \in 1..Len(changes) : changes[i].tag = "Insert"} \ NonSpaceAt(changes, "Insert")

\* C16: whenever the changes hold a whitespace-only inserted line and, later,
\* any other inserted line (whitespace-only or not, next to it or not), the
\* classification returns false.
C16_InsertionAfterSpacesRejects ==
    ClassificationReturned =>
        \A i \in SpaceOnlyInserts(ChangesOfCall) :
            \A k \in (i + 1)..Len(ChangesOfCall) :
                ChangesOfCall[k].tag = "Insert" => ~call.ret.valid

\* the line diff of two texts inserts a whitespace-only line and right after
\* it another line, for a grey text of several lines: only the rule about
\* whitespace-only insertions rejects this edit
C16_Witness ==
    /\ Returned("if_head_tail_equal_return_added_text")
    /\ contains_nl(call.orig_grey_text)
    /\ ChangesOfCall = <<[tag |-> "Insert", value |-> <<" ", NL>>],
                         [tag |-> "Insert", value |-> <<"b", NL>>]>>
    /\ ~call.ret.valid

(***************************************************************************)
(* C17                                                                      *)
(***************************************************************************)
\* a line without the "\n" at its end
WithoutTerminator(line) ==
    IF line # <<>> /\ line[Len(line)] = NL THEN SubSeq(line, 1, Len(line) - 1) ELSE line

\* the deletion recorded when the change at position k is reached: the first
\* deleted line before k that is not whitespace-only, without its terminator;
\* empty when there is none
RecordedDeletion(changes, k) ==
    LET before == {i \in NonSpaceAt(changes, "Delete") : i < k}
    IN IF before = {} THEN <<>>
       ELSE WithoutTerminator(changes[CHOOSE i \in before : \A j \in before : i <= j].value)

\* the inserted lines from position k on, each without the deletion recorded
\* before it
RECURSIVE InsertedWithoutDeleted(_, _)
InsertedWithoutDeleted(changes, k) ==
    IF k > Len(changes) THEN <<>>
    ELSE (IF changes[k].tag = "Insert"
          THEN SubSeq(changes[k].value,
                      Len(RecordedDeletion(changes, k)) + 1, Len(changes[k].value))
          ELSE <<>>)
         \o InsertedWithoutDeleted(changes, k + 1)

\* the added text of an accepted edit: one "\n" is taken from its end when a
\* deleted line ended with "\n", and it has no "\r"
TrimmedAddedText(changes, added) ==
    LET kill == \E i \in 1..Len(changes) :
                    /\ changes[i].tag = "Delete"
                    /\ changes[i].value # <<>>
                    /\ changes[i].value[Len(changes[i].value)] = NL
        killed == IF kill THEN WithoutTerminator(added) ELSE added
    IN SelectSeq(killed, LAMBDA c : c # CR)

\* C17: an inserted line that is reached after a deletion that is not
\* whitespace-only has been recorded must begin with exactly the deleted text
\* (the deleted line without its "\n"), or the classification returns false;
\* and when the classification returns true, the deleted text is left out of
\* every such line in the added text that is returned.
C17_InsertionMustExtendDeletion ==
    ClassificationReturned =>
        /\ \A k \in 1..Len(ChangesOfCall) :
              (/\ ChangesOfCall[k].tag = "Insert"
               /\ RecordedDeletion(ChangesOfCall, k) # <<>>
               /\ call.ret.valid)
              => (/\ Len(RecordedDeletion(ChangesOfCall, k)) <= Len(ChangesOfCall[k].value)
                  /\ \A i \in 1..Len(RecordedDeletion(ChangesOfCall, k)) :
                        ChangesOfCall[k].value[i] = RecordedDeletion(ChangesOfCall, k)[i])
        /\ call.ret.valid =>
              call.ret.text =
                 TrimmedAddedText(ChangesOfCall, InsertedWithoutDeleted(ChangesOfCall, 1))

\* the line "a\n" is replaced by "ab\n": the deleted "a" heads the inserted
\* line, and the added text is what follows it
C17_Witness ==
    /\ Returned("if_head_tail_equal_return_added_text")
    /\ ChangesOfCall = <<[tag |-> "Delete", value |-> <<"a", NL>>],
                         [tag |-> "Insert", value |-> <<"a", "b", NL>>]>>
    /\ call.ret = [valid |-> TRUE, text |-> <<"b">>]

(***************************************************************************)
(* C18                                                                      *)
(***************************************************************************)
\* how many changes of the character diff of two texts are tagged Equal
EqualChars(text_a, text_b) ==
    Cardinality({k \in 1..Len(iter_all_changes(text_a, text_b)) :
                    iter_all_changes(text_a, text_b)[k].tag = "Equal"})

\* C18: for all texts a and b unchanged_percentage(a, b) is the number of
\* characters tagged Equal divided by max(len(a), len(b)) and lies between
\* 0.0 and 1.0; unchanged_percentage(a, a) is 1.0 for a non-empty a; and
\* unchanged_percentage("", "") is 0.0.
C18_UnchangedPercentageIsRatioInUnitInterval ==
    Returned("unchanged_percentage") =>
        /\ InUnitInterval(call.ret)
        /\ call.ret.num * Max(Len(call.text_a), Len(call.text_b))
             = EqualChars(call.text_a, call.text_b) * call.ret.den
        /\ (call.text_a = call.text_b /\ call.text_a # <<>>) =>
              call.ret = [num |-> 1, den |-> 1]
        /\ (call.text_a = <<>> /\ call.text_b = <<>>) =>
              call.ret = [num |-> 0, den |-> 1]

\* what holds of the code: the same, for two texts that are not both empty
C18_RatioInUnitIntervalUnlessBothEmpty ==
    (/\ Returned("unchanged_percentage")
     /\ call.text_a # <<>> \/ call.text_b # <<>>) =>
        /\ InUnitInterval(call.ret)
        /\ call.ret.num * Max(Len(call.text_a), Len(call.text_b))
             = EqualChars(call.text_a, call.text_b) * call.ret.den
        /\ call.text_a = call.text_b => call.ret = [num |-> 1, den |-> 1]

(***************************************************************************)
(* C19                                                                      *)
(***************************************************************************)
\* C19: get_add_del_from_texts(a, b) returns as added the inserted lines of
\* the line diff of a and b, concatenated in order, and as removed the deleted
\* lines, concatenated in order, both without any "\r".
C19_AddedAndRemovedOfLineDiff ==
    Returned("get_add_del_from_texts") =>
        /\ call.ret.added =
              SelectSeq(ConcatTagged(ChangesOfCall, "Insert"), LAMBDA c : c # CR)
        /\ call.ret.removed =
              SelectSeq(ConcatTagged(ChangesOfCall, "Delete"), LAMBDA c : c # CR)

\* what holds of the code: added is as stated, and removed is a copy of added
C19_RemovedIsCopyOfAdded ==
    Returned("get_add_del_from_texts") =>
        /\ call.ret.added =
              SelectSeq(ConcatTagged(ChangesOfCall, "Insert"), LAMBDA c : c # CR)
        /\ call.ret.removed = call.ret.added

(***************************************************************************)
(* C20                                                                      *)
(***************************************************************************)
\* positions of the inserted lines
InsertsAt(changes) == {k \in 1..Len(changes) : changes[k].tag = "Insert"}

\* nothing is deleted and the inserted lines, at least one, are consecutive
OneInsertionBlockOnly(changes) ==
    /\ \A k \in 1..Len(changes) : changes[k].tag # "Delete"
    /\ InsertsAt(changes) # {}
    /\ \A i, k \in InsertsAt(changes) : \A j \in i..k : j \in InsertsAt(changes)

\* C20: inside one block of consecutive inserted lines, (1) with a grey text
\* without "\n" an inserted line that follows another inserted line and is
\* not whitespace-only makes the classification return false; (2) with such a
\* grey text one line followed by one whitespace-only line is accepted;
\* (3) with a grey text that has a "\n" any number of consecutive inserted
\* lines that are not whitespace-only is accepted, and the added text returned
\* is their concatenation.
C20_SecondLineOfBlock ==
    ClassificationReturned =>
        /\ ~contains_nl(call.orig_grey_text) =>
              \A k \in InsertsAt(ChangesOfCall) :
                 (k + 1 \in NonSpaceAt(ChangesOfCall, "Insert")) => ~call.ret.valid
        /\ (/\ ~contains_nl(call.orig_grey_text)
            /\ OneInsertionBlockOnly(ChangesOfCall)
            /\ \E k \in NonSpaceAt(ChangesOfCall, "Insert") :
                  /\ InsertsAt(ChangesOfCall) = {k, k + 1}
                  /\ k + 1 \in SpaceOnlyInserts(ChangesOfCall))
            => call.ret = [valid |-> TRUE,
                           text |-> SelectSeq(ConcatTagged(ChangesOfCall, "Insert"),
                                              LAMBDA c : c # CR)]
        /\ (/\ contains_nl(call.orig_grey_text)
            /\ OneInsertionBlockOnly(ChangesOfCall)
            /\ InsertsAt(ChangesOfCall) = NonSpaceAt(ChangesOfCall, "Insert"))
            => call.ret = [valid |-> TRUE,
                           text |-> SelectSeq(ConcatTagged(ChangesOfCall, "Insert"),
                                              LAMBDA c : c # CR)]

\* two lines that are not whitespace-only are inserted into a text, one after
\* the other, for a grey text of several lines: both are returned
C20_Witness ==
    /\ Returned("if_head_tail_equal_return_added_text")
    /\ contains_nl(call.orig_grey_text)
    /\ ChangesOfCall = <<[tag |-> "Insert", value |-> <<"a", NL>>],
                         [tag |-> "Insert", value |-> <<"b", NL>>]>>
    /\ call.ret = [valid |-> TRUE, text |-> <<"a", NL, "b", NL>>]

(***************************************************************************)
(* C21                                                                      *)
(***************************************************************************)
\* the lines of the added text of the call: the inserted lines of the line
\* diff of text_a and text_b, without "\r"
AddedLines ==
    lines(SelectSeq(ConcatTagged(ChangesOfCall, "Insert"), LAMBDA c : c # CR))

\* m[i] is the added line (counted from 1) matched to line i of the grey
\* text, 0 for none: each grey line, in order, has the first of the added
\* lines not matched before it that share the most characters with it, and
\* none when those lines share no character with it
GreedyMatching(m, grey_lines, added_lines) ==
    \A i \in 1..Len(grey_lines) :
        LET free == {j \in 1..Len(added_lines) : \A h \in 1..(i - 1) : m[h] # j}
        IN IF \A j \in free : EqualChars(added_lines[j], grey_lines[i]) = 0
           THEN m[i] = 0
           ELSE /\ m[i] \in free
                /\ \A j \in free :
                      /\ EqualChars(added_lines[j], grey_lines[i])
                           <= EqualChars(added_lines[m[i]], grey_lines[i])
                      /\ j < m[i] =>
                            EqualChars(added_lines[j], grey_lines[i])
                             < EqualChars(added_lines[m[i]], grey_lines[i])

\* the characters the matched pairs of lines i..Len(grey_lines) share
RECURSIVE MatchedChars(_, _, _, _)
MatchedChars(m, grey_lines, added_lines, i) ==
    IF i > Len(grey_lines) THEN 0
    ELSE (IF m[i] = 0 THEN 0 ELSE EqualChars(added_lines[m[i]], grey_lines[i]))
         + MatchedChars(m, grey_lines, added_lines, i + 1)

\* C21: when the added text is not empty, the lines of the grey text are
\* taken in order; each is matched to the added line, among those no earlier
\* grey line was matched to, that shares the most characters with it (the
\* first such line on ties), and the number of shared characters is added to
\* the score; a grey line that shares no character with any of these added
\* lines is matched to none and adds nothing. So no added line is matched
\* twice, and the result is the sum over the matched pairs divided by the
\* length of the grey text without "\n" and "\r".
C21_GreedyAlignment ==
    (Returned("unchanged_percentage_approx") /\ AddedLines # <<>>) =>
        \E m \in [1..Len(lines(call.grey_text_a)) -> 0..Len(AddedLines)] :
            /\ GreedyMatching(m, lines(call.grey_text_a), AddedLines)
            /\ LET matched == SelectSeq(m, LAMBDA j : j # 0)
               IN /\ Len(call.locals.a_idx_taken) = Len(matched)
                  /\ \A k \in 1..Len(matched) :
                        call.locals.a_idx_taken[k] = matched[k] - 1
            /\ \A k, h \in 1..Len(call.locals.a_idx_taken) :
                  call.locals.a_idx_taken[k] = call.locals.a_idx_taken[h] => k = h
            /\ call.locals.common
                 = MatchedChars(m, lines(call.grey_text_a), AddedLines, 1)
            /\ Len(replace_nl_cr(call.grey_text_a)) # 0 =>
                  /\ call.ret.den # 0
                  /\ call.ret.num * Len(replace_nl_cr(call.grey_text_a))
                       = call.locals.common * call.ret.den

\* the added lines "a" and "ab" both share one character with the grey line
\* "a", which takes the first of them; the grey line "c" shares nothing with
\* the added line left and takes none
C21_Witness ==
    /\ Returned("unchanged_percentage_approx")
    /\ AddedLines = <<<<"a">>, <<"a", "b">>>>
    /\ lines(call.grey_text_a) = <<<<"a">>, <<"c">>>>
    /\ call.locals = [common |-> 1, a_idx_taken |-> <<0>>]
    /\ call.ret = [num |-> 1, den |-> 2]

(***************************************************************************)
(* C22                                                                      *)
(***************************************************************************)
\* corrected_by_user and remaining_percentage of x are what the last update
\* of the record id wrote
CarriesLastUpdate(x, id) ==
    /\ history.updated[id].written
    /\ x.corrected_by_user = history.updated[id].corrected_by_user
    /\ x.remaining_percentage = history.updated[id].remaining_percentage

\* every finished record and every snippet handed to a collaborator has a
\* score >= 0 and carries the values of the last update of its record
FinishedCarryLastUpdate ==
    /\ \A i \in 1..Len(tele_snippets) :
          tele_snippets[i].finished_ts # 0 =>
             /\ GeZero(tele_snippets[i].remaining_percentage)
             /\ CarriesLastUpdate(tele_snippets[i], tele_snippets[i].snippet_telemetry_id)
    /\ \A k \in 1..Len(tele_robot_human) :
          /\ GeZero(tele_robot_human[k].remaining_percentage)
          /\ CarriesLastUpdate(tele_robot_human[k],
                               tele_robot_human[k].snippet_telemetry_id)
    /\ \A k \in 1..Len(snippet_data_accumulators) :
          /\ GeZero(snippet_data_accumulators[k].remaining_percentage)
          /\ CarriesLastUpdate(snippet_data_accumulators[k],
                               snippet_data_accumulators[k].snippet_telemetry_id)

\* C22: in every reachable state a record with finished_ts # 0 has
\* remaining_percentage >= 0, and the corrected_by_user and
\* remaining_percentage of a finished record and of the snippet handed to the
\* collaborators are the values the last valid update of that record wrote;
\* the call of sources_changed that finishes a record leaves both fields as
\* they were and hands them on unchanged.
C22_FinishedCarriesLastUpdate ==
    [][/\ FinishedCarryLastUpdate'
       /\ \A t \in Tasks :
             SourcesChangedStep(t) =>
                \A i \in 1..Len(tele_snippets) :
                   (tele_snippets[i].finished_ts = 0 /\ tele_snippets'[i].finished_ts # 0) =>
                      /\ tele_snippets'[i].corrected_by_user
                           = tele_snippets[i].corrected_by_user
                      /\ tele_snippets'[i].remaining_percentage
                           = tele_snippets[i].remaining_percentage
                      /\ history'.updated[tele_snippets[i].snippet_telemetry_id]
                           = history.updated[tele_snippets[i].snippet_telemetry_id]
                      /\ \E k \in 1..Len(local'[t].finished_snips) :
                            /\ local'[t].finished_snips[k].snippet_telemetry_id
                                 = tele_snippets[i].snippet_telemetry_id
                            /\ local'[t].finished_snips[k].corrected_by_user
                                 = tele_snippets[i].corrected_by_user
                            /\ local'[t].finished_snips[k].remaining_percentage
                                 = tele_snippets[i].remaining_percentage
      ]_vars

\* a record whose last update wrote the whole grey text "b\n" with the score
\* 1.0 is finished and was handed to both collaborators with these values
C22_Witness ==
    \E i \in 1..Len(tele_snippets) :
        /\ tele_snippets[i].finished_ts # 0
        /\ history.updated[tele_snippets[i].snippet_telemetry_id]
             = [written |-> TRUE, corrected_by_user |-> <<"b", NL>>,
                remaining_percentage |-> [num |-> 1, den |-> 1]]
        /\ \E k \in 1..Len(tele_robot_human) :
              /\ tele_robot_human[k].snippet_telemetry_id
                   = tele_snippets[i].snippet_telemetry_id
              /\ tele_robot_human[k].corrected_by_user = <<"b", NL>>
        /\ \E k \in 1..Len(snippet_data_accumulators) :
              snippet_data_accumulators[k].snippet_telemetry_id
                 = tele_snippets[i].snippet_telemetry_id

(***************************************************************************)
(* C23                                                                      *)
(***************************************************************************)
\* two records of the same file with the same snapshot of it and the same
\* grey text
SameSuggestion(a, b) ==
    /\ a.file = b.file
    /\ a.sources = b.sources
    /\ a.grey_text = b.grey_text

\* the record is accepted and not finished
Tracked(snip) == snip.accepted_ts # 0 /\ snip.finished_ts = 0

\* C23: what a call of sources_changed does to an accepted, unfinished record
\* of the file depends only on the snapshot taken when the record was
\* registered, on its grey text and on the text of this call, not on the
\* calls before it: two records with the same snapshot and grey text that the
\* same call treats, whatever happened to each before, are both classified
\* as valid or both as not valid, and if the call leaves them accepted and
\* unfinished they hold the same corrected_by_user and remaining_percentage.
C23_OutcomeDependsOnSnapshotAndNewText ==
    [][\A t \in Tasks :
          SourcesChangedStep(t) =>
             \A i, j \in 1..Len(tele_snippets) :
                (/\ SameSuggestion(tele_snippets[i], tele_snippets[j])
                 /\ Tracked(tele_snippets[i]) /\ Tracked(tele_snippets[j])
                 /\ tele_snippets[i].file \in DOMAIN tele_snippets[i].sources
                 /\ ends_with(local'[t].uri, tele_snippets[i].file)) =>
                    /\ Tracked(tele_snippets'[i]) <=> Tracked(tele_snippets'[j])
                    /\ Tracked(tele_snippets'[i]) =>
                          /\ tele_snippets'[i].corrected_by_user
                               = tele_snippets'[j].corrected_by_user
                          /\ tele_snippets'[i].remaining_percentage
                               = tele_snippets'[j].remaining_percentage
      ]_vars

\* a call has just treated two records of one suggestion with different
\* pasts: one was abandoned by an earlier call and accepted again, the other
\* never; both are accepted and unfinished and hold the added text "b\n"
C23_Witness ==
    \E t \in Tasks : \E i, j \in 1..Len(tele_snippets) :
        /\ pc[t] = "sc_done"
        /\ local[t].text = <<"a", NL, "b", NL>>
        /\ ends_with(local[t].uri, tele_snippets[i].file)
        /\ i # j
        /\ SameSuggestion(tele_snippets[i], tele_snippets[j])
        /\ tele_snippets[i].file \in DOMAIN tele_snippets[i].sources
        /\ Tracked(tele_snippets[i]) /\ Tracked(tele_snippets[j])
        /\ tele_snippets[i].snippet_telemetry_id \in history.abandoned
        /\ tele_snippets[j].snippet_telemetry_id \notin history.abandoned
        /\ tele_snippets[i].corrected_by_user = <<"b", NL>>
        /\ tele_snippets[j].corrected_by_user = <<"b", NL>>
        /\ tele_snippets[i].remaining_percentage = tele_snippets[j].remaining_percentage

====
